---- MODULE Spec2Model ----
(***************************************************************************)
(* Starlight Tales: the PCM->WAV encoder and the raw PCM decoder of        *)
(* src/services/geminiService.ts, and the story generation chain of        *)
(* src/App.tsx, as state machines.                                         *)
(*                                                                         *)
(* Bytes are naturals 0..255, byte arrays are sequences (offset k of the   *)
(* source is index k+1).  A JavaScript number that may exceed TLC's 32-bit *)
(* integers (a sample rate, a byte rate) is a little-endian sequence of    *)
(* base-256 digits without high zero digits, so that the 32-bit fields of  *)
(* the WAV header keep their real width.                                   *)
(***************************************************************************)
EXTENDS Integers, Sequences, FiniteSets, TLC

VARIABLES
    \* pcmToWav(base64Pcm, sampleRate)
    pcmBytes,       \* the raw PCM bytes the speech service encoded
    base64Pcm,      \* argument: the base64 text, a sequence of alphabet indices
    sampleRate,     \* argument: [given |-> BOOLEAN, value |-> number]
    pcmData,        \* the local Uint8Array when the function returns
    wavOut,         \* the bytes of the returned Blob
    wavPc,          \* "ready", "done", "InvalidCharacterError"
    \* decodeAudioData(data, ctx)
    data,           \* argument: [buffer, byteOffset, length], a Uint8Array
    channelData,    \* the samples of the returned AudioBuffer, as fractions
    decPc,          \* "ready", "done", "RangeError", "NotSupportedError"
    \* App: the form and handleGenerate
    name,           \* useState(''): the child's name
    theme,          \* useState(''): the story's theme
    mode,           \* useState('BOOK'): "BOOK" or "AUDIO"
    isLoading,      \* useState(false)
    loadingStep,    \* useState(''): [step, idx]
    story,          \* useState(null): Null or the published story
    pc,             \* where handleGenerate is suspended: "idle" or the stage awaited
    storyData,      \* handleGenerate's local storyData
    inFlight,       \* the service calls of the running handleGenerate not yet settled
    stragglers,     \* calls still unsettled whose handleGenerate has already ended
    alerts,         \* number of alert(t.errorMagic) shown
    generations,    \* number of handleGenerate runs started
    ageGroup,       \* useState('3-5')
    run,            \* history of the latest handleGenerate run: the calls it
                    \* started, those that returned, how it ended
    \* App: the audio slideshow and playAudio
    currentSlide,   \* useState(0)
    audioSourceRef, \* useRef(null): 0 for null, else the id of the source
    playbacks,      \* the sources started and not yet ended, each with the
                    \* interval playAudio made for it
    plays,          \* number of playAudio calls so far
    resuming,       \* the playAudio calls suspended at await ctx.resume()
    playShown,      \* the play button is in the page as last rendered
    played,         \* the stories (by generation) whose playback was started
    \* ChatBot
    isOpen,         \* useState(false)
    messages,       \* useState([]): the entries [role, text]
    input,          \* useState('')
    chatIsLoading,  \* useState(false): ChatBot's own isLoading
    chatPending,    \* the chatWithGemini calls not yet settled
    sends,          \* number of send events (button or Enter) so far
    accepted        \* number of those that passed handleSend's first line

wavVars == <<pcmBytes, base64Pcm, sampleRate, pcmData, wavOut, wavPc>>
decVars == <<data, channelData, decPc>>
appVars == <<name, theme, mode, isLoading, loadingStep, story, pc, storyData,
             inFlight, stragglers, alerts, generations, ageGroup, run>>
chatVars == <<isOpen, messages, input, chatIsLoading, chatPending, sends, accepted>>
playVars == <<currentSlide, audioSourceRef, playbacks, plays, resuming, played>>
vars == <<wavVars, decVars, appVars, chatVars, playVars, playShown>>

-----------------------------------------------------------------------------
(* Bounds of the model *)

MaxPcmLen == 4      \* longest PCM byte sequence given to pcmToWav
MaxBufLen == 4      \* longest ArrayBuffer behind the array given to decodeAudioData
MaxChapters == 3    \* most chapters the story service returns
MaxGenerations == 2 \* most handleGenerate runs in one behaviour
MaxPlays == 2       \* most playAudio calls in one behaviour
MaxSends == 3       \* most send events (button or Enter) of ChatBot in one behaviour

PcmByteVals == {0, 1, 128, 255}
DecByteVals == {0, 64, 127, 128, 192, 255}

ByteSeqs(S, n) == UNION {[1..k -> S] : k \in 0..n}

-----------------------------------------------------------------------------
(* JavaScript numbers as little-endian base-256 digit sequences *)

RECURSIVE Digits(_)
Digits(n) == IF n = 0 THEN <<>> ELSE <<n % 256>> \o Digits(n \div 256)

RECURSIVE Norm(_)
Norm(d) == IF Len(d) > 0 /\ d[Len(d)] = 0 THEN Norm(SubSeq(d, 1, Len(d) - 1)) ELSE d

RECURSIVE MulCarry(_, _, _)
MulCarry(d, k, c) ==
    IF Len(d) = 0 THEN Digits(c)
    ELSE LET p == d[1] * k + c IN <<p % 256>> \o MulCarry(Tail(d), k, p \div 256)

\* ToUint32 of the DataView setters: the value modulo 2^32, as 4 bytes
ToUint32(d) == [i \in 1..4 |-> IF i <= Len(d) THEN d[i] ELSE 0]

-----------------------------------------------------------------------------
(* base64: the alphabet's characters are their indices 0..63, '=' is 64 *)

\* the speech service's encoding of raw bytes (RFC 4648, padded)
RECURSIVE Btoa(_)
Btoa(B) ==
    IF Len(B) = 0 THEN <<>>
    ELSE IF Len(B) = 1 THEN <<B[1] \div 4, (B[1] % 4) * 16, 64, 64>>
    ELSE IF Len(B) = 2
        THEN <<B[1] \div 4, (B[1] % 4) * 16 + B[2] \div 16, (B[2] % 16) * 4, 64>>
    ELSE <<B[1] \div 4, (B[1] % 4) * 16 + B[2] \div 16,
           (B[2] % 16) * 4 + B[3] \div 64, B[3] % 64>>
         \o Btoa(SubSeq(B, 4, Len(B)))

\* atob, step 1: a length divisible by 4 loses one or two trailing '='
\* (the alphabet here has no white space, which atob would drop first)
StripPadding(s) ==
    IF Len(s) > 0 /\ Len(s) % 4 = 0
    THEN IF s[Len(s)] = 64 /\ s[Len(s) - 1] = 64 THEN SubSeq(s, 1, Len(s) - 2)
         ELSE IF s[Len(s)] = 64 THEN SubSeq(s, 1, Len(s) - 1)
         ELSE s
    ELSE s

\* atob, step 2: what is left must be alphabet characters, length not 1 mod 4
AtobValid(s) ==
    LET d == StripPadding(s)
    IN  Len(d) % 4 # 1 /\ \A i \in 1..Len(d) : d[i] \in 0..63

\* atob, step 3: 4 characters give 3 bytes; 3 give 2 and 2 give 1 (low bits dropped)
RECURSIVE AtobBits(_)
AtobBits(d) ==
    IF Len(d) = 0 THEN <<>>
    ELSE IF Len(d) = 2 THEN <<d[1] * 4 + d[2] \div 16>>
    ELSE IF Len(d) = 3
        THEN <<d[1] * 4 + d[2] \div 16, (d[2] % 16) * 16 + d[3] \div 4>>
    ELSE <<d[1] * 4 + d[2] \div 16, (d[2] % 16) * 16 + d[3] \div 4,
           (d[3] % 4) * 64 + d[4]>>
         \o AtobBits(SubSeq(d, 5, Len(d)))

atob(s) == AtobBits(StripPadding(s))

decodeBase64(base64) ==
    LET binaryString == atob(base64)
    IN  [i \in 1..Len(binaryString) |-> binaryString[i] % 256]

-----------------------------------------------------------------------------
(* pcmToWav *)

ArrayBuffer(n) == [i \in 1..n |-> 0]

setUint8(view, offset, v) == [view EXCEPT ![offset + 1] = v % 256]

\* little-endian (the source passes true)
setUint16(view, offset, v) ==
    [view EXCEPT ![offset + 1] = v % 256, ![offset + 2] = (v \div 256) % 256]

setUint32(view, offset, d) ==
    LET b == ToUint32(d)
    IN  [view EXCEPT ![offset + 1] = b[1], ![offset + 2] = b[2],
                     ![offset + 3] = b[3], ![offset + 4] = b[4]]

RECURSIVE writeString(_, _, _)
writeString(view, offset, string) ==
    IF Len(string) = 0 THEN view
    ELSE writeString(setUint8(view, offset, string[1]), offset + 1, Tail(string))

\* charCodeAt of the four markers
RIFF == <<82, 73, 70, 70>>
WAVE == <<87, 65, 86, 69>>
FMT  == <<102, 109, 116, 32>>
DATA == <<100, 97, 116, 97>>

DefaultSampleRate == 24000

EffectiveSampleRate(arg) ==
    IF arg.given THEN arg.value ELSE Digits(DefaultSampleRate)

BufferSizeDoubled(pcm) == 44 + 2 * Len(pcm)
BufferSize(pcm) == 44 + Len(pcm)

ChunkSizeCanonical(pcm) == Digits(36 + Len(pcm))
ChunkSize(pcm) == Digits(32 + Len(pcm))

FormatFieldsStereo(view) ==
    setUint16(setUint16(setUint16(setUint32(view, 16, Digits(16)), 20, 1), 22, 2), 34, 16)
FormatFields(view) ==
    setUint16(setUint16(setUint16(setUint32(view, 16, Digits(16)), 20, 1), 22, 1), 34, 16)

ByteRateUnscaled(rate) == rate
ByteRate(rate) == MulCarry(rate, 2, 0)

DataSizeInSamples(pcm) == Digits(Len(pcm) \div 2)
DataSize(pcm) == Digits(Len(pcm))

\* new Uint8Array(buffer, 44).set(pcmData)
CopyPayloadOverData(buffer, pcm) ==
    [i \in 1..Len(buffer) |->
        IF i > 40 /\ i - 40 <= Len(pcm) THEN pcm[i - 40] ELSE buffer[i]]
CopyPayload(buffer, pcm) ==
    [i \in 1..Len(buffer) |->
        IF i > 44 /\ i - 44 <= Len(pcm) THEN pcm[i - 44] ELSE buffer[i]]

pcmToWav(b64, rateArg) ==
    LET pcm    == decodeBase64(b64)
        rate   == EffectiveSampleRate(rateArg)
        buffer == ArrayBuffer(BufferSize(pcm))
        v1  == writeString(buffer, 0, RIFF)
        v2  == setUint32(v1, 4, ChunkSize(pcm))
        v3  == writeString(v2, 8, WAVE)
        v4  == writeString(v3, 12, FMT)
        v5  == FormatFields(v4)
        v6  == setUint32(v5, 24, rate)
        v7  == setUint32(v6, 28, ByteRate(rate))
        v8  == setUint16(v7, 32, 2)
        v9  == writeString(v8, 36, DATA)
        v10 == setUint32(v9, 40, DataSize(pcm))
    IN  [pcmData |-> pcm, blob |-> CopyPayload(v10, pcm)]

\* the sample rates tried: the 32-bit range's ends, its middle and usual rates
SampleRates ==
    {Digits(0), Digits(8000), Digits(24000), Digits(44100),
     <<255, 255, 255, 127>>, <<0, 0, 0, 128>>, <<255, 255, 255, 255>>}

SampleRateArgs ==
    {[given |-> TRUE, value |-> r] : r \in SampleRates}
        \cup {[given |-> FALSE, value |-> <<>>]}

\* text that is not base64: one character, a lone '=', five characters
Malformed == {<<0>>, <<64>>, <<16, 16, 16, 16, 16>>}

\* the service's text for B, padded or with the padding left off
Encodings(B) == {Btoa(B), StripPadding(Btoa(B))}

WavInit ==
    /\ \/ /\ pcmBytes \in ByteSeqs(PcmByteVals, MaxPcmLen)
          /\ base64Pcm \in Encodings(pcmBytes)
       \/ /\ pcmBytes = <<>>
          /\ base64Pcm \in Malformed
    /\ sampleRate \in SampleRateArgs
    /\ pcmData = <<>>
    /\ wavOut = <<>>
    /\ wavPc = "ready"

PcmToWavReturns ==
    /\ wavPc = "ready"
    /\ AtobValid(base64Pcm)
    /\ LET r == pcmToWav(base64Pcm, sampleRate)
       IN  /\ pcmData' = r.pcmData
           /\ wavOut' = r.blob
    /\ wavPc' = "done"
    /\ UNCHANGED <<pcmBytes, base64Pcm, sampleRate, decVars, appVars, chatVars, playVars, playShown>>

\* atob throws before anything is allocated
PcmToWavThrows ==
    /\ wavPc = "ready"
    /\ ~AtobValid(base64Pcm)
    /\ wavPc' = "InvalidCharacterError"
    /\ UNCHANGED <<pcmBytes, base64Pcm, sampleRate, pcmData, wavOut, decVars, appVars, chatVars, playVars, playShown>>

-----------------------------------------------------------------------------
(* decodeAudioData *)

RECURSIVE GCD(_, _)
GCD(a, b) == IF b = 0 THEN a ELSE GCD(b, a % b)

Abs(n) == IF n < 0 THEN -n ELSE n

\* the quotient n / d as a fraction in lowest terms
Quotient(n, d) == LET g == GCD(Abs(n), d) IN <<n \div g, d \div g>>

\* element i (from 0) of an Int16Array over the bytes: little-endian, two's complement
Int16At(bytes, i) ==
    LET u == bytes[2 * i + 1] + 256 * bytes[2 * i + 2]
    IN  IF u >= 32768 THEN u - 65536 ELSE u

\* new Int16Array(buffer): a RangeError unless the byte length is a multiple of 2
Int16ArrayFloors(buffer) ==
    [ok |-> TRUE, length |-> Len(buffer) \div 2]
Int16ArrayOf(buffer) ==
    [ok |-> Len(buffer) % 2 = 0, length |-> Len(buffer) \div 2]

\* the Int16Array is made over data.buffer: the whole buffer, whatever part
\* of it the Uint8Array views
decodeAudioData(d) ==
    LET dataInt16 == Int16ArrayOf(d.buffer)
    IN  IF ~dataInt16.ok
            THEN [outcome |-> "RangeError", channelData |-> <<>>]
        ELSE IF dataInt16.length = 0
            \* createBuffer(1, 0, 24000): a buffer of no frames is refused
            THEN [outcome |-> "NotSupportedError", channelData |-> <<>>]
        ELSE [outcome |-> "done",
              channelData |->
                [i \in 1..dataInt16.length |->
                    Quotient(Int16At(d.buffer, i - 1), 32768)]]

\* the bytes the Uint8Array shows
ViewBytes(d) == SubSeq(d.buffer, d.byteOffset + 1, d.byteOffset + d.length)

\* decodeBase64 returns an array that owns its whole buffer
OwnsBuffer(d) == d.byteOffset = 0 /\ d.length = Len(d.buffer)

DecInit ==
    /\ \E buf \in ByteSeqs(DecByteVals, MaxBufLen) :
       \E off \in 0..Len(buf) :
       \E len \in 0..(Len(buf) - off) :
            data = [buffer |-> buf, byteOffset |-> off, length |-> len]
    /\ channelData = <<>>
    /\ decPc = "ready"

DecodeAudioData ==
    /\ decPc = "ready"
    /\ LET r == decodeAudioData(data)
       IN  /\ decPc' = r.outcome
           /\ channelData' = r.channelData
    /\ UNCHANGED <<data, wavVars, appVars, chatVars, playVars, playShown>>

-----------------------------------------------------------------------------
(* App: the form, handleGenerate and Start Over *)

Null == [present |-> FALSE]

Names == {"", "Mia"}
Themes == {"", "dragons"}
Modes == {"BOOK", "AUDIO"}
AGE_GROUPS == {"0-2", "3-5", "6-8"}

\* generateStoryStructure: what the prompt asks for, by age group
StoryRequest(age) ==
    IF age = "0-2"
        THEN [chapterCount |-> 3, wordTarget |-> "400-450 words total",
              durationMinutes |-> 3]
    ELSE IF age = "3-6"
        THEN [chapterCount |-> 5, wordTarget |-> "700-750 words total",
              durationMinutes |-> 5]
    ELSE IF age = "7-10"
        THEN [chapterCount |-> 6, wordTarget |-> "1000-1100 words total",
              durationMinutes |-> 7]
    ELSE [chapterCount |-> 5, wordTarget |-> "750 words total",
          durationMinutes |-> 5]

NoRun == [outcome |-> "none", started |-> {}, returned |-> {}, failed |-> {},
          failures |-> 0]

Step(s) == [step |-> s, idx |-> 0]
\* t.stepChapter(idx + 1, storyData.chapters.length)
StepChapter(i) == [step |-> "stepChapter", idx |-> i]

Call(k, i) == [kind |-> k, idx |-> i]

\* the calls storyData.chapters.map(async ...) has started when Promise.all is
\* awaited: every callback runs to its own await generateImage at once
ChapterCallsWithAudio(n) == {Call("chapter", i) : i \in 1..n} \cup {Call("audio", 0)}
ChapterCalls(n) == {Call("chapter", i) : i \in 1..n}

\* the last setLoadingStep of the map's callbacks
ChapterStep(n) == IF n = 0 THEN Step("step3") ELSE StepChapter(n)

AppInit ==
    /\ name = ""
    /\ theme = ""
    /\ mode = "BOOK"
    /\ isLoading = FALSE
    /\ loadingStep = Step("")
    /\ story = Null
    /\ pc = "idle"
    /\ storyData = Null
    /\ inFlight = {}
    /\ stragglers = 0
    /\ alerts = 0
    /\ generations = 0
    /\ ageGroup = "3-5"
    /\ run = NoRun
    /\ currentSlide = 0
    /\ audioSourceRef = 0
    /\ playbacks = {}
    /\ plays = 0
    /\ resuming = {}
    /\ playShown = FALSE
    /\ played = {}

\* the form is rendered while story is null, also while loading
SetName(v) ==
    /\ ~story.present
    /\ name' = v
    /\ UNCHANGED <<theme, mode, isLoading, loadingStep, story, pc, storyData,
                   inFlight, stragglers, alerts, generations, wavVars, decVars, chatVars, ageGroup, run, playVars, playShown>>

SetTheme(v) ==
    /\ ~story.present
    /\ theme' = v
    /\ UNCHANGED <<name, mode, isLoading, loadingStep, story, pc, storyData,
                   inFlight, stragglers, alerts, generations, wavVars, decVars, chatVars, ageGroup, run, playVars, playShown>>

SetAgeGroup(a) ==
    /\ ~story.present
    /\ ageGroup' = a
    /\ UNCHANGED <<name, theme, mode, isLoading, loadingStep, story, pc, storyData,
                   inFlight, stragglers, alerts, generations, wavVars, decVars, chatVars, run,
                   playVars, playShown>>

SetMode(m) ==
    /\ ~story.present
    /\ mode' = m
    /\ UNCHANGED <<name, theme, isLoading, loadingStep, story, pc, storyData,
                   inFlight, stragglers, alerts, generations, wavVars, decVars, chatVars, ageGroup, run, playVars, playShown>>

\* the button is disabled while isLoading or a field is empty; the run keeps
\* the mode of the render it was started from
HandleGenerate ==
    /\ ~story.present
    /\ ~isLoading
    /\ name # "" /\ theme # ""
    /\ generations < MaxGenerations
    /\ isLoading' = TRUE
    /\ story' = Null
    /\ loadingStep' = Step("step1")
    /\ storyData' = [present |-> TRUE, mode |-> mode, chapters |-> 0,
                     cover |-> FALSE, images |-> {}, audio |-> FALSE,
                     decodable |-> FALSE,
                     gen |-> generations + 1, ageGroup |-> ageGroup,
                     request |-> StoryRequest(ageGroup)]
    /\ inFlight' = {Call("story", 0)}
    /\ pc' = "story"
    /\ generations' = generations + 1
    /\ run' = [NoRun EXCEPT !.outcome = "running", !.started = {Call("story", 0)},
                            !.failures = run.failures]
    /\ UNCHANGED <<name, theme, mode, stragglers, alerts, wavVars, decVars, chatVars, ageGroup,
                   playVars, playShown>>

\* catch without the finally
AbortKeepsLoading(failed) ==
    /\ alerts' = alerts + 1
    /\ pc' = "idle"
    /\ stragglers' = stragglers + Cardinality(inFlight \ {failed})
    /\ inFlight' = {}
    /\ run' = [run EXCEPT !.outcome = "failed", !.failed = {failed},
                          !.failures = @ + 1]
    /\ UNCHANGED <<name, theme, mode, isLoading, loadingStep, story, storyData,
                   generations, wavVars, decVars, chatVars, ageGroup, playVars, playShown>>

\* catch and finally: the calls the run leaves unsettled go on by themselves
Abort(failed) ==
    /\ alerts' = alerts + 1
    /\ isLoading' = FALSE
    /\ pc' = "idle"
    /\ stragglers' = stragglers + Cardinality(inFlight \ {failed})
    /\ inFlight' = {}
    /\ run' = [run EXCEPT !.outcome = "failed", !.failed = {failed},
                          !.failures = @ + 1]
    /\ UNCHANGED <<name, theme, mode, loadingStep, story, storyData, generations,
                   wavVars, decVars, chatVars, ageGroup, playVars, playShown>>

\* the history of a run whose call c returned
Returned(c) ==
    run' = [run EXCEPT !.returned = @ \cup {c},
                       !.started = @ \cup inFlight',
                       !.outcome = IF pc' = "idle" THEN "published" ELSE "running"]

\* setStory(storyData), then finally
Publish(sd) ==
    /\ story' = sd
    /\ storyData' = sd
    /\ isLoading' = FALSE
    /\ pc' = "idle"
    /\ inFlight' = {}
    /\ playShown' = (sd.mode = "AUDIO" /\ audioSourceRef = 0)

\* the audio call whatever the mode
AfterChaptersAlwaysAudio(sd, step) ==
    /\ loadingStep' = Step("step4")
    /\ storyData' = sd
    /\ inFlight' = {Call("audio", 0)}
    /\ pc' = "audio"
    /\ UNCHANGED <<isLoading, story, playShown>>

\* after the chapter images: the audio call in AUDIO mode, else the story is set
AfterChapters(sd, step) ==
    IF sd.mode = "AUDIO"
    THEN /\ loadingStep' = Step("step4")
         /\ storyData' = sd
         /\ inFlight' = {Call("audio", 0)}
         /\ pc' = "audio"
         /\ UNCHANGED <<isLoading, story, playShown>>
    ELSE /\ loadingStep' = step
         /\ Publish(sd)

StoryReturns(n) ==
    /\ pc = "story"
    /\ Call("story", 0) \in inFlight
    /\ storyData' = [storyData EXCEPT !.chapters = n]
    /\ loadingStep' = Step("step2")
    /\ inFlight' = {Call("cover", 0)}
    /\ pc' = "cover"
    /\ UNCHANGED <<name, theme, mode, isLoading, story, stragglers, alerts,
                   generations, wavVars, decVars, chatVars, ageGroup, playVars, playShown>>
    /\ Returned(Call("story", 0))

StoryFails ==
    /\ pc = "story"
    /\ Call("story", 0) \in inFlight
    /\ Abort(Call("story", 0))

CoverReturns ==
    /\ pc = "cover"
    /\ Call("cover", 0) \in inFlight
    /\ LET sd == [storyData EXCEPT !.cover = TRUE]
       IN  IF sd.chapters = 0
           \* Promise.all([]) is fulfilled at once
           THEN AfterChapters(sd, ChapterStep(0))
           ELSE /\ storyData' = sd
                /\ loadingStep' = ChapterStep(sd.chapters)
                /\ inFlight' = ChapterCalls(sd.chapters)
                /\ pc' = "chapters"
                /\ UNCHANGED <<isLoading, story, playShown>>
    /\ UNCHANGED <<name, theme, mode, stragglers, alerts, generations,
                   wavVars, decVars, chatVars, ageGroup, playVars>>
    /\ Returned(Call("cover", 0))

CoverFails ==
    /\ pc = "cover"
    /\ Call("cover", 0) \in inFlight
    /\ Abort(Call("cover", 0))

ChapterReturns(i) ==
    /\ pc = "chapters"
    /\ Call("chapter", i) \in inFlight
    /\ LET sd == [storyData EXCEPT !.images = @ \cup {i}]
       IN  IF inFlight = {Call("chapter", i)}
           THEN AfterChapters(sd, loadingStep)
           ELSE /\ storyData' = sd
                /\ inFlight' = inFlight \ {Call("chapter", i)}
                /\ UNCHANGED <<loadingStep, isLoading, story, pc, playShown>>
    /\ UNCHANGED <<name, theme, mode, stragglers, alerts, generations,
                   wavVars, decVars, chatVars, ageGroup, playVars>>
    /\ Returned(Call("chapter", i))

\* Promise.all rejects with the first rejection
ChapterFails(i) ==
    /\ pc = "chapters"
    /\ Call("chapter", i) \in inFlight
    /\ Abort(Call("chapter", i))

\* the audio text returned; ok: its bytes are PCM that decodeAudioData accepts
AudioReturns(ok) ==
    /\ pc = "audio"
    /\ Call("audio", 0) \in inFlight
    /\ Publish([storyData EXCEPT !.audio = TRUE, !.decodable = ok])
    /\ UNCHANGED <<name, theme, mode, loadingStep, stragglers, alerts, generations,
                   wavVars, decVars, chatVars, ageGroup, playVars>>
    /\ Returned(Call("audio", 0))

AudioFails ==
    /\ pc = "audio"
    /\ Call("audio", 0) \in inFlight
    /\ Abort(Call("audio", 0))

\* a call left behind settles; nobody awaits it
StragglerSettles ==
    /\ stragglers > 0
    /\ stragglers' = stragglers - 1
    /\ UNCHANGED <<name, theme, mode, isLoading, loadingStep, story, pc, storyData,
                   inFlight, alerts, generations, wavVars, decVars, chatVars, ageGroup, run, playVars, playShown>>

\* source.stop(): a source that is playing ends, its onended is yet to run
Stop(pbs, id) ==
    {IF p.id = id /\ p.audio = "playing" THEN [p EXCEPT !.audio = "stopping"] ELSE p :
        p \in pbs}

\* the play button of the page React renders from the state after a step
PlayButton(st, ref) == st.present /\ st.mode = "AUDIO" /\ ref = 0

StartOver ==
    /\ story.present
    /\ story' = Null
    /\ playbacks' = (IF audioSourceRef # 0 THEN Stop(playbacks, audioSourceRef)
                                           ELSE playbacks)
    /\ playShown' = FALSE
    /\ UNCHANGED <<name, theme, mode, isLoading, loadingStep, pc, storyData,
                   inFlight, stragglers, alerts, generations, wavVars, decVars, chatVars,
                   ageGroup, run, currentSlide, audioSourceRef, plays, resuming,
                   played>>

\* lines 38-64 of playAudio, for the story st of the render the click was in
PlayStart(st) ==
    IF ~st.decodable
    \* decodeAudioData throws, the catch logs it
    THEN UNCHANGED <<currentSlide, audioSourceRef, playbacks, played, playShown>>
    ELSE /\ playbacks' =
                (IF audioSourceRef # 0 THEN Stop(playbacks, audioSourceRef)
                                       ELSE playbacks)
                \cup {[id |-> plays + 1, n |-> st.chapters, slideIdx |-> 0,
                        timer |-> TRUE, audio |-> "playing"]}
         /\ currentSlide' = 0
         /\ audioSourceRef' = plays + 1
         /\ played' = played \cup {st.gen}
         \* a render only when setCurrentSlide(0) changes the state
         /\ playShown' = (IF currentSlide # 0 THEN PlayButton(story, plays + 1)
                                               ELSE playShown)

\* the play button, with an AudioContext that is running
PlayAudio ==
    /\ playShown
    /\ plays < MaxPlays
    /\ plays' = plays + 1
    /\ PlayStart(story)
    /\ UNCHANGED <<appVars, wavVars, decVars, chatVars, resuming>>

\* the play button, with an AudioContext that is suspended: await ctx.resume()
PlayAudioSuspends ==
    /\ playShown
    /\ plays < MaxPlays
    /\ plays' = plays + 1
    /\ resuming' = resuming \cup {[id |-> plays + 1, story |-> story]}
    /\ UNCHANGED <<appVars, wavVars, decVars, chatVars, currentSlide, audioSourceRef,
                   playbacks, played, playShown>>

\* ctx.resume() settled; the source takes the next free id
PlayAudioResumes(r) ==
    /\ r \in resuming
    /\ resuming' = resuming \ {r}
    /\ plays' = plays
    /\ LET st == r.story
       IN  IF ~st.decodable
           THEN UNCHANGED <<currentSlide, audioSourceRef, playbacks, played, playShown>>
           ELSE /\ playbacks' =
                    (IF audioSourceRef # 0 THEN Stop(playbacks, audioSourceRef)
                                           ELSE playbacks)
                    \cup {[id |-> r.id, n |-> st.chapters, slideIdx |-> 0,
                            timer |-> TRUE, audio |-> "playing"]}
                /\ currentSlide' = 0
                /\ audioSourceRef' = r.id
                /\ played' = played \cup {st.gen}
                /\ playShown' = (IF currentSlide # 0 THEN PlayButton(story, r.id)
                                                      ELSE playShown)
    /\ UNCHANGED <<appVars, wavVars, decVars, chatVars>>

\* the interval's callback of the source p
Tick(p) ==
    /\ p \in playbacks
    /\ p.timer
    /\ IF p.slideIdx + 1 < p.n
       THEN /\ playbacks' = (playbacks \ {p}) \cup {[p EXCEPT !.slideIdx = @ + 1]}
            /\ currentSlide' = p.slideIdx + 1
            /\ playShown' = (IF currentSlide # p.slideIdx + 1
                                THEN PlayButton(story, audioSourceRef)
                                ELSE playShown)
       ELSE /\ playbacks' = (playbacks \ {p})
                                \cup {[p EXCEPT !.slideIdx = @ + 1, !.timer = FALSE]}
            /\ UNCHANGED <<currentSlide, playShown>>
    /\ UNCHANGED <<appVars, wavVars, decVars, chatVars, audioSourceRef, plays, resuming, played>>

\* source.onended, when the audio ran to its end or after stop(): clearInterval
OnEnded(p) ==
    /\ p \in playbacks
    /\ playbacks' = playbacks \ {p}
    /\ UNCHANGED <<appVars, wavVars, decVars, chatVars, currentSlide, audioSourceRef, plays,
                   resuming, played, playShown>>

-----------------------------------------------------------------------------
(* ChatBot *)

\* The handlers of ChatBot run one at a time, each on the state of the last
\* render: a click or a key press is a discrete event, after which React
\* renders before the next event is handled, and the updates made after the
\* await are rendered before the next event as well.

\* what the user can have in the input field
Inputs == {"", " ", "hi", " cat "}

\* String.prototype.trim on these
Trim(v) ==
    CASE v = " " -> ""
      [] v = " cat " -> "cat"
      [] OTHER -> v

\* what chatWithGemini resolves to: response.text, which may be empty
Replies == {"", "Once upon a time"}

errorMagic == "t.errorMagic"

ChatInit ==
    /\ isOpen = FALSE
    /\ messages = <<>>
    /\ input = ""
    /\ chatIsLoading = FALSE
    /\ chatPending = 0
    /\ sends = 0
    /\ accepted = 0

SetIsOpen(b) ==
    /\ isOpen # b
    /\ isOpen' = b
    /\ UNCHANGED <<messages, input, chatIsLoading, chatPending, sends, accepted,
                   wavVars, decVars, appVars, playVars, playShown>>

\* onChange of the input field, rendered while the window is open
SetInput(v) ==
    /\ isOpen
    /\ input # v
    /\ input' = v
    /\ UNCHANGED <<isOpen, messages, chatIsLoading, chatPending, sends, accepted,
                   wavVars, decVars, appVars, playVars, playShown>>

SendReturnsEarlyOnBlankOnly(inp, loading) == Trim(inp) = ""

\* if (!input.trim() || isLoading) return;
SendReturnsEarly(inp, loading) == Trim(inp) = "" \/ loading

\* the send button or Enter in the input field, up to the await
HandleSend ==
    /\ isOpen
    /\ sends < MaxSends
    /\ sends' = sends + 1
    /\ IF SendReturnsEarly(input, chatIsLoading)
         THEN UNCHANGED <<messages, input, chatIsLoading, chatPending, accepted>>
         ELSE /\ messages' = Append(messages, [role |-> "user", text |-> Trim(input)])
              /\ input' = ""
              /\ chatIsLoading' = TRUE
              /\ chatPending' = chatPending + 1
              /\ accepted' = accepted + 1
    /\ UNCHANGED <<isOpen, wavVars, decVars, appVars, playVars, playShown>>

\* chatWithGemini resolves: the try block's second line, then finally
ChatReturns(response) ==
    /\ chatPending > 0
    /\ chatPending' = chatPending - 1
    /\ messages' = Append(messages,
                     [role |-> "ai", text |-> IF response = "" THEN "..." ELSE response])
    /\ chatIsLoading' = FALSE
    /\ UNCHANGED <<isOpen, input, sends, accepted,
                   wavVars, decVars, appVars, playVars, playShown>>

\* chatWithGemini rejects: catch, then finally
ChatFails ==
    /\ chatPending > 0
    /\ chatPending' = chatPending - 1
    /\ messages' = Append(messages, [role |-> "ai", text |-> errorMagic])
    /\ chatIsLoading' = FALSE
    /\ UNCHANGED <<isOpen, input, sends, accepted,
                   wavVars, decVars, appVars, playVars, playShown>>

-----------------------------------------------------------------------------
(* Specifications *)

\* the state of a part that is not running
WavIdle ==
    /\ pcmBytes = <<>>
    /\ base64Pcm = <<>>
    /\ sampleRate = [given |-> FALSE, value |-> <<>>]
    /\ pcmData = <<>>
    /\ wavOut = <<>>
    /\ wavPc = "ready"

DecIdle ==
    /\ data = [buffer |-> <<>>, byteOffset |-> 0, length |-> 0]
    /\ channelData = <<>>
    /\ decPc = "ready"

Init == AppInit /\ WavIdle /\ DecIdle /\ ChatInit

Next ==
    \/ \E v \in Names : SetName(v)
    \/ \E v \in Themes : SetTheme(v)
    \/ \E m \in Modes : SetMode(m)
    \/ \E a \in AGE_GROUPS : SetAgeGroup(a)
    \/ HandleGenerate
    \/ \E n \in 0..MaxChapters : StoryReturns(n)
    \/ StoryFails
    \/ CoverReturns
    \/ CoverFails
    \/ \E i \in 1..MaxChapters : ChapterReturns(i)
    \/ \E i \in 1..MaxChapters : ChapterFails(i)
    \/ \E ok \in BOOLEAN : AudioReturns(ok)
    \/ AudioFails
    \/ StragglerSettles
    \/ StartOver

Spec == Init /\ [][Next]_vars

\* The form, handleGenerate and the audio slideshow together.  The actions of
\* the slideshow leave the variables of the form and of handleGenerate alone,
\* and no action of Next reads the slideshow's variables other than to say
\* what is rendered, so Spec is the projection of this specification's
\* behaviours.  To keep the state space small the form is edited only while no
\* run is going on and the age group is left as it is: every behaviour of
\* SpecPlay is a behaviour of the program.
NextPlay ==
    \/ \E v \in Names : pc = "idle" /\ SetName(v)
    \/ \E v \in Themes : pc = "idle" /\ SetTheme(v)
    \/ \E m \in Modes : pc = "idle" /\ SetMode(m)
    \/ HandleGenerate
    \/ \E n \in 0..MaxChapters : StoryReturns(n)
    \/ StoryFails
    \/ CoverReturns
    \/ CoverFails
    \/ \E i \in 1..MaxChapters : ChapterReturns(i)
    \/ \E i \in 1..MaxChapters : ChapterFails(i)
    \/ \E ok \in BOOLEAN : AudioReturns(ok)
    \/ AudioFails
    \/ StragglerSettles
    \/ StartOver
    \/ PlayAudio
    \/ PlayAudioSuspends
    \/ \E r \in resuming : PlayAudioResumes(r)
    \/ \E p \in playbacks : Tick(p)
    \/ \E p \in playbacks : OnEnded(p)

SpecPlay == Init /\ [][NextPlay]_vars

\* ChatBot alone: it shares no state with the rest of the page
NextChat ==
    \/ \E b \in BOOLEAN : SetIsOpen(b)
    \/ \E v \in Inputs : SetInput(v)
    \/ HandleSend
    \/ \E response \in Replies : ChatReturns(response)
    \/ ChatFails

SpecChat == Init /\ [][NextChat]_vars

\* pcmToWav on every input of the bounded sets
InitWav == WavInit /\ DecIdle /\ AppInit /\ ChatInit
NextWav == PcmToWavReturns \/ PcmToWavThrows
SpecWav == InitWav /\ [][NextWav]_vars

\* decodeAudioData on every array of the bounded sets
InitDec == DecInit /\ WavIdle /\ AppInit /\ ChatInit
NextDec == DecodeAudioData
SpecDec == InitDec /\ [][NextDec]_vars

-----------------------------------------------------------------------------
(* Reading a WAV container back, for the properties below *)

getUint16(view, offset) == view[offset + 1] + 256 * view[offset + 2]

\* the little-endian 32-bit field at the offset, as a number
getUint32(view, offset) == Norm(SubSeq(view, offset + 1, offset + 4))

\* a + b + c on digit sequences
RECURSIVE AddCarry(_, _, _)
AddCarry(a, b, c) ==
    IF Len(a) = 0 /\ Len(b) = 0 THEN Digits(c)
    ELSE LET x == IF Len(a) = 0 THEN 0 ELSE a[1]
             y == IF Len(b) = 0 THEN 0 ELSE b[1]
             ra == IF Len(a) = 0 THEN a ELSE Tail(a)
             rb == IF Len(b) = 0 THEN b ELSE Tail(b)
         IN  <<(x + y + c) % 256>> \o AddCarry(ra, rb, (x + y + c) \div 256)

Plus(a, b) == Norm(AddCarry(a, b, 0))

\* the sample rate the call asks for: the argument, or 24000 when it is omitted
RequestedRate == IF sampleRate.given THEN sampleRate.value ELSE Digits(24000)

\* r < 2^31
BelowHalfRange(r) == Len(r) < 4 \/ r[4] < 128

-----------------------------------------------------------------------------
(* pcmToWav: properties *)

\* C1: the bytes of the output from offset 44 to its end are the PCM bytes B,
\* in order and unchanged, for every B (of even or odd length) and every
\* sample rate, and the array the payload was copied from still holds B.
PayloadIsInput ==
    wavPc = "done" =>
        /\ SubSeq(wavOut, 45, Len(wavOut)) = pcmBytes
        /\ pcmData = pcmBytes

PayloadIsInputWitness ==
    /\ wavPc = "done"
    /\ pcmBytes = <<1, 128, 255, 0>>
    /\ SubSeq(wavOut, 45, 48) = <<1, 128, 255, 0>>

\* C2: the output is 44 + N bytes long for N input bytes, N = 0 included.
LengthIsHeaderPlusPayload ==
    wavPc = "done" => Len(wavOut) = 44 + Len(pcmBytes)

LengthWitness ==
    \/ wavPc = "done" /\ pcmBytes = <<>> /\ Len(wavOut) = 44 /\ sampleRate.given
    \/ wavPc = "done" /\ Len(pcmBytes) = 3 /\ Len(wavOut) = 47 /\ ~sampleRate.given

\* C3: the canonical RIFF invariant, the field at offset 4 is 36 + the data
\* size written at offset 40.
CanonicalChunkSize ==
    wavPc = "done" =>
        getUint32(wavOut, 4) = Plus(getUint32(wavOut, 40), Digits(36))

\* C6: the 32-bit little-endian field at offset 40 is N, the number of PCM bytes.
DataSizeIsN ==
    wavPc = "done" => getUint32(wavOut, 40) = Digits(Len(pcmBytes))

DataSizeWitness ==
    /\ wavPc = "done"
    /\ Len(pcmBytes) = 3
    /\ SubSeq(wavOut, 41, 44) = <<3, 0, 0, 0>>

\* C7: the markers and the format fields are the same for every input:
\* 'RIFF', 'WAVE', 'fmt ', 'data', format chunk size 16, audio format 1, one
\* channel, block align 2, 16 bits per sample; block align is channels times
\* bits per sample / 8.
ConstantHeaderFields ==
    wavPc = "done" =>
        /\ SubSeq(wavOut, 1, 4) = <<82, 73, 70, 70>>
        /\ SubSeq(wavOut, 9, 12) = <<87, 65, 86, 69>>
        /\ SubSeq(wavOut, 13, 16) = <<102, 109, 116, 32>>
        /\ SubSeq(wavOut, 37, 40) = <<100, 97, 116, 97>>
        /\ SubSeq(wavOut, 17, 20) = <<16, 0, 0, 0>>
        /\ getUint16(wavOut, 20) = 1
        /\ getUint16(wavOut, 22) = 1
        /\ getUint16(wavOut, 32) = 2
        /\ getUint16(wavOut, 34) = 16
        /\ getUint16(wavOut, 32) * 8 = getUint16(wavOut, 22) * getUint16(wavOut, 34)

ConstantHeaderWitness ==
    /\ wavPc = "done"
    /\ pcmBytes = <<255, 255>>
    /\ sampleRate.given /\ sampleRate.value = <<255, 255, 255, 255>>
    /\ SubSeq(wavOut, 21, 24) = <<1, 0, 1, 0>>

\* C8 as stated: for every unsigned 32-bit sample rate r the field at offset 24
\* is r and the field at offset 28 is r x 2, with no wrap-around.
ByteRateNeverWraps ==
    wavPc = "done" =>
        /\ getUint32(wavOut, 24) = RequestedRate
        /\ getUint32(wavOut, 28) = Plus(RequestedRate, RequestedRate)

\* C8 amended: the field at offset 24 is r; the field at offset 28 is r x 2
\* for r < 2^31, and r x 2 - 2^32 (the low 32 bits of r x 2) for r >= 2^31.
ByteRateModuloWord ==
    wavPc = "done" =>
        /\ getUint32(wavOut, 24) = RequestedRate
        /\ BelowHalfRange(RequestedRate) =>
                getUint32(wavOut, 28) = Plus(RequestedRate, RequestedRate)
        /\ ~BelowHalfRange(RequestedRate) =>
                Plus(RequestedRate, RequestedRate) = SubSeq(wavOut, 29, 32) \o <<1>>

ByteRateWrapWitness ==
    /\ wavPc = "done"
    /\ sampleRate.given /\ sampleRate.value = <<0, 0, 0, 128>>
    /\ SubSeq(wavOut, 25, 28) = <<0, 0, 0, 128>>
    /\ SubSeq(wavOut, 29, 32) = <<0, 0, 0, 0>>

\* C9: the 32-bit little-endian field at offset 4 is 32 + N.
ChunkSizeIs32PlusN ==
    wavPc = "done" => getUint32(wavOut, 4) = Digits(32 + Len(pcmBytes))

ChunkSizeWitness ==
    /\ wavPc = "done"
    /\ Len(pcmBytes) = 4
    /\ SubSeq(wavOut, 5, 8) = <<36, 0, 0, 0>>

-----------------------------------------------------------------------------
(* decodeAudioData: properties *)

\* the 16-bit little-endian two's complement value of the i-th byte pair
SampleOf(bytes, i) ==
    LET lo == bytes[2 * i - 1]
        hi == bytes[2 * i]
    IN  IF hi >= 128 THEN lo + 256 * (hi - 256) ELSE lo + 256 * hi

\* the fraction q is s / 32768
IsNormalized(q, s) == q[2] > 0 /\ q[1] * 32768 = s * q[2]

\* C4 as stated: an array of odd length raises no error and gives
\* floor(length / 2) samples.
OddLengthTruncates ==
    (decPc # "ready" /\ data.length % 2 = 1) =>
        /\ decPc = "done"
        /\ Len(channelData) = data.length \div 2

\* C4 amended: when the buffer of the array has an odd byte length, as for
\* every odd-length array that owns its buffer, the call ends in a RangeError
\* and gives no samples.
OddBufferThrows ==
    (decPc # "ready" /\ Len(data.buffer) % 2 = 1) =>
        /\ decPc = "RangeError"
        /\ channelData = <<>>

OddBufferWitness ==
    /\ decPc = "RangeError"
    /\ OwnsBuffer(data)
    /\ data.length = 3

\* C5: for an array of even length (here: not empty), also a view of part of a
\* larger buffer, there are length / 2 samples, sample i is the 16-bit
\* little-endian signed value of bytes 2i and 2i+1 of the array over 32768,
\* and every sample is in [-1, 1).
SamplesAreViewBytes ==
    (decPc # "ready" /\ data.length % 2 = 0 /\ data.length > 0) =>
        /\ decPc = "done"
        /\ Len(channelData) = data.length \div 2
        /\ \A i \in 1..Len(channelData) :
            /\ IsNormalized(channelData[i], SampleOf(ViewBytes(data), i))
            /\ -channelData[i][2] <= channelData[i][1]
            /\ channelData[i][1] < channelData[i][2]

-----------------------------------------------------------------------------
(* handleGenerate: properties *)

\* C10 as stated: at every moment at most one call of the run is in flight.
AtMostOneInFlight == Cardinality(inFlight) <= 1

\* C10 amended: in the story, cover and audio stages exactly that stage's one
\* call is in flight; in the chapter stage only chapter-image calls are, all of
\* them started together, so up to chapters.length at once; none when no run
\* is going on.
OnlyChapterImagesOverlap ==
    /\ pc \in {"story", "cover", "audio"} => inFlight = {Call(pc, 0)}
    /\ pc = "chapters" =>
        /\ inFlight # {}
        /\ inFlight \subseteq {Call("chapter", i) : i \in 1..storyData.chapters}
        /\ inFlight \cup {Call("chapter", i) : i \in storyData.images}
                = {Call("chapter", i) : i \in 1..storyData.chapters}
    /\ pc = "idle" => inFlight = {}

ChapterImagesOverlapWitness ==
    /\ pc = "chapters"
    /\ storyData.chapters >= 2
    /\ Cardinality(inFlight) = storyData.chapters

\* the place of a call's stage in the chain
StageRank(k) ==
    IF k = "story" THEN 1 ELSE IF k = "cover" THEN 2 ELSE IF k = "chapter" THEN 3 ELSE 4

\* C11: when a call of the run fails (story text, cover image, a chapter
\* image or audio) the run has started no call of a later stage and starts
\* none, no story is published (story is null), an alert is shown for each
\* failed run and isLoading is false.
FailureAbortsRun ==
    run.outcome = "failed" =>
        /\ ~story.present
        /\ ~isLoading
        /\ pc = "idle"
        /\ inFlight = {}
        /\ alerts = run.failures /\ alerts >= 1
        /\ \A f \in run.failed : \A c \in run.started :
                StageRank(c.kind) <= StageRank(f.kind)

FailureAbortsRunWitness ==
    /\ run.outcome = "failed"
    /\ run.failed = {Call("chapter", 2)}
    /\ stragglers >= 1
    /\ storyData.cover

\* C12: the cover-image call starts only after the story text returned, a
\* chapter-image call only after the cover image returned, the audio call only
\* after every chapter image returned and only in a run started in AUDIO mode,
\* and the story is published only after every call of these stages returned.
StagesInOrder ==
    /\ \A c \in run.started :
        /\ c.kind = "cover" => Call("story", 0) \in run.returned
        /\ c.kind = "chapter" => Call("cover", 0) \in run.returned
        /\ c.kind = "audio" =>
            /\ storyData.mode = "AUDIO"
            /\ Call("cover", 0) \in run.returned
            /\ \A i \in 1..storyData.chapters : Call("chapter", i) \in run.returned
    /\ (story.present \/ run.outcome = "published") =>
        /\ {Call("story", 0), Call("cover", 0)} \subseteq run.returned
        /\ \A i \in 1..storyData.chapters : Call("chapter", i) \in run.returned
        /\ storyData.mode = "AUDIO" <=> Call("audio", 0) \in run.returned
        /\ run.started = run.returned

StagesInOrderWitness ==
    /\ story.present
    /\ story.mode = "AUDIO"
    /\ story.chapters = 2
    /\ story.audio
    /\ mode = "BOOK"

\* C16: for each age group of the form the request is its tier's: 3 chapters
\* and 3 minutes for '0-2', 5 and 5 for '3-5', 6 and 7 for '6-8', and none
\* gets the defaults.
RequestMatchesTier ==
    storyData.present =>
        /\ storyData.ageGroup = "0-2" =>
            storyData.request.chapterCount = 3 /\ storyData.request.durationMinutes = 3
        /\ storyData.ageGroup = "3-5" =>
            storyData.request.chapterCount = 5 /\ storyData.request.durationMinutes = 5
        /\ storyData.ageGroup = "6-8" =>
            storyData.request.chapterCount = 6 /\ storyData.request.durationMinutes = 7
        /\ storyData.request.wordTarget # "750 words total"

-----------------------------------------------------------------------------
(* The audio slideshow: properties *)

\* C13: while a story in AUDIO mode is displayed whose playback has not been
\* started, the play button is in the page, also for a story generated after
\* an earlier one was played and Start Over was pressed.
PlayControlShown ==
    (story.present /\ story.mode = "AUDIO" /\ story.gen \notin played) => playShown

\* C14: while a story in AUDIO mode is displayed (here: one with a chapter at
\* least, and when no source or interval of an earlier playback is left),
\* currentSlide is the index of one of its chapters.
SlideInRange ==
    (story.present /\ story.mode = "AUDIO" /\ story.chapters >= 1 /\ playbacks = {}) =>
        (0 <= currentSlide /\ currentSlide < story.chapters)

-----------------------------------------------------------------------------
(* ChatBot: properties *)

\* the entries of the list alternate user, ai, starting with a user entry,
\* and an ai entry is a reply, "..." or the error text
Alternates(ms) ==
    \A i \in 1..Len(ms) :
        /\ ms[i].role = (IF i % 2 = 1 THEN "user" ELSE "ai")
        /\ ms[i].role = "ai" => ms[i].text \in (Replies \ {""}) \cup {"...", errorMagic}

\* one request at most, shown as isLoading; each accepted send has its ai
\* entry unless its request is the pending one
OneRequest ==
    /\ chatPending <= 1
    /\ chatIsLoading <=> chatPending = 1
    /\ Alternates(messages)
    /\ Len(messages) = 2 * accepted - chatPending

\* a send event with blank input or while a request is pending changes nothing
IgnoredSend ==
    (sends' # sends /\ (Trim(input) = "" \/ chatPending > 0)) =>
        UNCHANGED <<isOpen, messages, input, chatIsLoading, chatPending, accepted>>

\* C15: under every interleaving of send events and replies at most one
\* request is in flight, the list alternates user, ai from a user entry, a
\* send with blank input or during a request changes nothing, and every
\* accepted send gets exactly one ai entry (the reply, "..." or the error text).
OneRequestAtATime == []OneRequest /\ [][IgnoredSend]_vars

\* two exchanges are complete, one answered by an empty reply, and a send was
\* ignored on the way
OneRequestAtATimeWitness ==
    /\ Len(messages) = 4
    /\ chatPending = 0
    /\ sends > accepted
    /\ \E i \in {2, 4} : messages[i].text = "..."

====
